---- MODULE Spec2Model ----
(***************************************************************************)
(* Model of the realtime-subtitle pipeline: Pipeline.processing_loop       *)
(* (src/main.py), the two ThreadPoolExecutors it feeds, Transcriber        *)
(* (src/transcriber.py) and Translator.translate (src/translator.py).      *)
(*                                                                         *)
(* A text is a sequence of word tokens (naturals); the empty sequence is   *)
(* the empty string.                                                       *)
(***************************************************************************)
EXTENDS Integers, Sequences, FiniteSets, TLC

\* ---------------------------------------------------------------- bounds
\* Length of the audio stream of an ordinary run.
MaxChunks == 3
\* Largest value of config.transcription_workers.
MaxWorkers == 3
\* Length of the audio stream of an overloaded run (the backlog overflows).
OverloadChunks == 11
\* Transcriptions the slow engine completes during an overloaded run.
OverloadDone == 2
\* Transcriptions that complete in a run with stalled workers.
StallDone == 2
\* Longest text and largest vocabulary the filter is run on.
FilterLen == 11
FilterVocab == 5
\* Workers of the pool in the run that has fallen behind.
BehindWorkers == 7

\* ------------------------------------------------------ program constants
\* len(pending_transcriptions) > 10
HighWater == 10
\* pending_transcriptions[-5:]
LowWater == 5
\* ThreadPoolExecutor(max_workers=2)
TranslateWorkers == 2
\* if max_repeats > 4
MaxRepeats == 4
\* if len(words) > 10
MinRatioWords == 10

VARIABLES
    use_mlx,                \* Transcriber.use_mlx
    workers,                \* config.transcription_workers
    audio_len,              \* segments the audio source will produce
    budget,                 \* transcriptions the engine still completes
    running,                \* Pipeline.running
    pc,                     \* position of the processing_loop thread
    audio_read,             \* segments read from get_audio_stream()
    chunk_id,
    transcriber_index,
    pending_transcriptions, \* list of chunk ids (each with its future)
    pending_translations,
    still_pending,          \* still_pending / still_pending_trans
    idx,                    \* position of the running for-loop over a list
    tjobs,                  \* transcribe_executor: chunk id -> work item
    xjobs,                  \* translate calls: chunk id -> call
    xq,                     \* translate_executor's submissions, in order
    previous_text,          \* Translator.previous_text
    previous_translation,   \* Translator.previous_translation
    events,                 \* update_text emissions, in order
    shed,                   \* history: ids dropped by the backlog slice
    completed,              \* history: ids in transcription completion order
    abandoned,              \* history: ids the drain gave up waiting for
    exited                  \* the interpreter has exited: no thread runs

vars == <<use_mlx, workers, audio_len, budget, running, pc, audio_read,
          chunk_id, transcriber_index, pending_transcriptions,
          pending_translations, still_pending, idx, tjobs, xjobs, xq,
          previous_text, previous_translation, events, shed, completed,
          abandoned, exited>>

\* ------------------------------------------------------------------ texts
EmptyText == <<>>
\* The words the engine hears in segment k.
Speech(k) == <<k>>
\* A decoder stutter loop: "once once once once once".
Stutter == <<0, 0, 0, 0, 0>>
\* f"[Error: {e}]"
ErrorText == <<-1>>
\* The translation engine's answer for a text (never the text itself).
Translated(text) == [i \in 1..Len(text) |-> text[i] + 100]

Max(a, b) == IF a >= b THEN a ELSE b

Range(s) == {s[i] : i \in 1..Len(s)}

\* The loop of _is_hallucination over words[i..], carrying
\* max_repeats, current_repeats and last_word (-1 stands for "").
RECURSIVE ScanRepeats(_, _, _, _, _)
ScanRepeats(words, i, max_repeats, current_repeats, last_word) ==
    IF i > Len(words)
    THEN Max(max_repeats, current_repeats)
    ELSE IF words[i] = last_word
         THEN ScanRepeats(words, i + 1, max_repeats, current_repeats + 1,
                          last_word)
         ELSE ScanRepeats(words, i + 1, Max(max_repeats, current_repeats),
                          1, words[i])

\* Mutant: "if max_repeats >= 4".
IsHallucinationFrom4(words) ==
    IF Len(words) = 0
    THEN FALSE
    ELSE IF ScanRepeats(words, 1, 0, 1, -1) >= MaxRepeats
         THEN TRUE
         ELSE /\ Len(words) > MinRatioWords
              /\ 10 * Cardinality(Range(words)) < 4 * Len(words)

IsHallucination(words) ==
    IF Len(words) = 0
    THEN FALSE
    ELSE IF ScanRepeats(words, 1, 0, 1, -1) > MaxRepeats
         THEN TRUE
         ELSE /\ Len(words) > MinRatioWords
              \* len(unique_words) / len(words) < 0.4
              /\ 10 * Cardinality(Range(words)) < 4 * Len(words)

\* Mutant: transcribe returns the text without asking the filter.
TranscribeUnfiltered(raw) == raw

\* Transcriber.transcribe on the engine's raw text.
Transcribe(raw) == IF IsHallucination(raw) THEN EmptyText ELSE raw

\* What the engine can return for segment k.
RawOutputs(k) == {EmptyText, Speech(k), Stutter}

\* ------------------------------------------------------------ the pool
\* num_transcription_workers
NumWorkers == IF use_mlx THEN 1 ELSE workers

TRunning == {k \in DOMAIN tjobs : tjobs[k].st = "running"}
TQueued == {k \in DOMAIN tjobs : tjobs[k].st = "queued"}

XPoolRunning == {k \in DOMAIN xjobs :
                    xjobs[k].pool /\ xjobs[k].st \notin {"queued", "done"}}

Min(S) == CHOOSE x \in S : \A y \in S : x <= y

\* Mutant: the backlog is never cut.
ShedNever(list) == list

\* Mutant: the slice keeps the oldest entries, pending_transcriptions[:5].
ShedNewest(list) ==
    IF Len(list) > HighWater THEN SubSeq(list, 1, LowWater) ELSE list

\* pending_transcriptions[-5:] when the list is longer than 10.
Shed(list) ==
    IF Len(list) > HighWater
    THEN SubSeq(list, Len(list) - LowWater + 1, Len(list))
    ELSE list

\* signals.update_text.emit(cid, original, translated)
Emit(cid, original, translated) ==
    Append(events, [id |-> cid, original |-> original,
                    translated |-> translated])

\* Mutant: the poll submits the translation without the partial update.
EmitNoPartial(cid, text) == events

\* Line 145: the partial update of a transcription found done.
EmitPartial(cid, text) == Emit(cid, text, EmptyText)

\* Mutant: the poll shows a translation, never a diagnostic.
EmitFinalTranslated(cid) ==
    IF xjobs[cid].result = ErrorText THEN events
    ELSE Emit(cid, xjobs[cid].text, xjobs[cid].result)

\* Lines 165-169: the (original, translated) pair of a translation future.
EmitFinal(cid) == Emit(cid, xjobs[cid].text, xjobs[cid].result)

\* Mutant: the drain emits the text without its translation.
EmitDrainedUntranslated(cid) == Emit(cid, xjobs[cid].text, EmptyText)

\* Lines 183-184: the text and what translate returned to the drain loop.
EmitDrained(cid) == Emit(cid, xjobs[cid].text, xjobs[cid].result)

\* Mutant: the second drain loop waits for the future and drops its pair.
DropDrainedTranslation(cid) == events

\* Lines 190-193: the pair of a translation future the drain waited for.
EmitDrainedTranslation(cid) == Emit(cid, xjobs[cid].text, xjobs[cid].result)

\* Mutant: "chunk_id += 1" comes before the check of self.running.
IdBeforeCheck(c, run) == c + 1

\* Lines 113-116: "if not self.running: break" comes before
\* "chunk_id += 1".
IdAfterRead(c, run) == IF run THEN c + 1 ELSE c

\* Mutant: the loop walks the list from its newest entry.
TurnNewestFirst(list, i) == list[Len(list) + 1 - i]

\* The i-th turn of "for cid, fut in list".
Turn(list, i) == list[i]

\* Mutant: the loop calls fut.result() without asking fut.done() first.
DoneWaits(job) == job.st = "done"

\* Lines 140 and 162: fut.done() answers at once, whatever the state of
\* the future; the loop never waits for it.
DoneAnswers(job) == TRUE

\* --------------------------------------------------------------- Init
InitCommon ==
    /\ running = TRUE
    /\ pc = "read"
    /\ audio_read = 0
    /\ chunk_id = 0
    /\ transcriber_index = 0
    /\ pending_transcriptions = <<>>
    /\ pending_translations = <<>>
    /\ still_pending = <<>>
    /\ idx = 1
    /\ tjobs = <<>>
    /\ xjobs = <<>>
    /\ xq = <<>>
    /\ previous_text = EmptyText
    /\ previous_translation = EmptyText
    /\ events = <<>>
    /\ shed = {}
    /\ completed = <<>>
    /\ abandoned = {}
    /\ exited = FALSE

\* The configurations: faster-whisper with 1..MaxWorkers workers, or the
\* MLX backend with a configuration that asks for MaxWorkers.
InitConfig ==
    /\ use_mlx \in BOOLEAN
    /\ workers \in (IF use_mlx THEN {MaxWorkers} ELSE 1..MaxWorkers)

\* An ordinary run: an engine that completes every call it can.
Init ==
    /\ InitCommon
    /\ InitConfig
    /\ audio_len = MaxChunks
    /\ budget = MaxChunks

\* An overloaded run: one worker, a long stream, and an engine so slow
\* that it completes only a few calls while the stream lasts.
InitOverload ==
    /\ InitCommon
    /\ use_mlx \in BOOLEAN
    /\ workers = 1
    /\ audio_len = OverloadChunks
    /\ budget = OverloadDone

\* ------------------------------------------------- Pipeline.stop (main)
Stop ==
    /\ ~exited
    /\ running
    /\ running' = FALSE
    /\ UNCHANGED <<exited, abandoned, use_mlx, workers,
                   audio_len, budget, pc, audio_read,
                   chunk_id, transcriber_index, pending_transcriptions,
                   pending_translations, still_pending, idx, tjobs, xjobs,
                   xq, previous_text, previous_translation, events, shed,
                   completed>>

\* ------------------------------------------- processing_loop, RUNNING
\* Where the thread goes when the for-loop over the audio stream ends:
\* the first drain loop with an entry to wait for, or the shutdown.
DrainPc(i) ==
    IF i <= Len(pending_transcriptions) THEN "drain_t"
    ELSE IF Len(pending_translations) > 0 THEN "drain_x"
    ELSE "stopped"

DrainIdx(i) == IF i <= Len(pending_transcriptions) THEN i ELSE 1

\* Mutant: the transcriber is picked after "transcriber_index += 1".
NewJobAfterIncrement(cid, index, chunk) ==
    [id |-> cid, st |-> "queued", transcriber |-> (index + 1) % NumWorkers,
     audio |-> chunk, raw |-> EmptyText, text |-> EmptyText,
     raised |-> FALSE]

\* The work item transcribe_executor.submit(...) queues for chunk cid.
NewJob(cid, index, chunk) ==
    [id |-> cid, st |-> "queued", transcriber |-> index % NumWorkers,
     audio |-> chunk, raw |-> EmptyText, text |-> EmptyText,
     raised |-> FALSE]

\* Mutant: the for-loop never looks at self.running.
NoBreak(run) == FALSE

\* Lines 113-114: "if not self.running: break".
Break(run) == ~run

\* One pass of "for audio_chunk in get_audio_stream()" up to the backlog
\* slice: read a segment, leave on not running, else number it, submit it
\* round-robin, append it and shed.
ReadChunk ==
    /\ ~exited
    /\ pc = "read"
    /\ audio_read < audio_len
    /\ audio_read' = audio_read + 1
    /\ chunk_id' = IdAfterRead(chunk_id, running)
    /\ IF Break(running)
       THEN /\ pc' = DrainPc(1)
            /\ idx' = 1
            /\ UNCHANGED <<transcriber_index, pending_transcriptions,
                           tjobs, shed>>
       ELSE /\ transcriber_index' = transcriber_index + 1
            /\ tjobs' = Append(tjobs, NewJob(chunk_id', transcriber_index,
                                             audio_read'))
            /\ pending_transcriptions' =
                   Shed(Append(pending_transcriptions, chunk_id'))
            /\ shed' = shed \cup (Range(pending_transcriptions)
                                   \ Range(pending_transcriptions'))
            /\ pc' = "poll_t"
            /\ idx' = 1
    /\ UNCHANGED <<exited, abandoned, use_mlx, workers,
                   audio_len, budget, running,
                   pending_translations, still_pending, xjobs, xq,
                   previous_text, previous_translation, events, completed>>

\* The audio stream ends: the source is exhausted, or audio.stop() ended it.
EndOfStream ==
    /\ ~exited
    /\ pc = "read"
    /\ audio_read = audio_len \/ ~running
    /\ pc' = DrainPc(1)
    /\ idx' = 1
    /\ UNCHANGED <<exited, abandoned, use_mlx, workers,
                   audio_len, budget, running, audio_read,
                   chunk_id, transcriber_index, pending_transcriptions,
                   pending_translations, still_pending, tjobs, xjobs, xq,
                   previous_text, previous_translation, events, shed,
                   completed>>

\* A translate call on text, before it has read anything.
NewCall(text, pool) ==
    [pool |-> pool, st |-> "queued", text |-> text, ctx_text |-> EmptyText,
     ctx_translation |-> EmptyText, result |-> EmptyText]

\* Mutant: a future that holds an exception stays in the list.
StillPendingRaised(job, cid) ==
    IF job.st = "done" /\ ~job.raised THEN still_pending
    ELSE Append(still_pending, cid)

\* Lines 140-156: an entry is kept only when fut.done() is false; the
\* except clause of a done future keeps nothing.
StillPending(job, cid) ==
    IF job.st = "done" THEN still_pending ELSE Append(still_pending, cid)

\* One turn of "for cid, fut in pending_transcriptions" in RUNNING.
PollTranscription ==
    /\ ~exited
    /\ pc = "poll_t"
    /\ DoneAnswers(tjobs[Turn(pending_transcriptions, idx)])
    /\ LET cid == Turn(pending_transcriptions, idx)
           job == tjobs[cid]
           last == idx = Len(pending_transcriptions)
           accepted == job.st = "done" /\ ~job.raised /\ job.text # EmptyText
           kept == StillPending(job, cid)
       IN  /\ IF accepted
              THEN /\ events' = EmitPartial(cid, job.text)
                   /\ xjobs' = xjobs @@ (cid :> NewCall(job.text, TRUE))
                   /\ xq' = Append(xq, cid)
                   /\ pending_translations' = Append(pending_translations, cid)
              ELSE UNCHANGED <<events, xjobs, xq, pending_translations>>
           /\ IF last
              THEN /\ pending_transcriptions' = kept
                   /\ still_pending' = <<>>
                   /\ idx' = 1
                   /\ pc' = IF Len(pending_translations') > 0
                            THEN "poll_x" ELSE "read"
              ELSE /\ still_pending' = kept
                   /\ idx' = idx + 1
                   /\ UNCHANGED <<pending_transcriptions, pc>>
    /\ UNCHANGED <<exited, abandoned, use_mlx, workers,
                   audio_len, budget, running, audio_read,
                   chunk_id, transcriber_index, tjobs, previous_text,
                   previous_translation, shed, completed>>

\* Mutant: a translation found done stays in the list.
StillPendingTransAll(call, cid) == Append(still_pending, cid)

\* Lines 162-174: an entry goes to still_pending_trans only when
\* fut.done() is false.
StillPendingTrans(call, cid) ==
    IF call.st = "done" THEN still_pending ELSE Append(still_pending, cid)

\* One turn of "for cid, fut in pending_translations" in RUNNING.
PollTranslation ==
    /\ ~exited
    /\ pc = "poll_x"
    /\ DoneAnswers(xjobs[Turn(pending_translations, idx)])
    /\ LET cid == Turn(pending_translations, idx)
           call == xjobs[cid]
           last == idx = Len(pending_translations)
           kept == StillPendingTrans(call, cid)
       IN  /\ IF call.st = "done"
              THEN events' = EmitFinal(cid)
              ELSE UNCHANGED events
           /\ IF last
              THEN /\ pending_translations' = kept
                   /\ still_pending' = <<>>
                   /\ idx' = 1
                   /\ pc' = "read"
              ELSE /\ still_pending' = kept
                   /\ idx' = idx + 1
                   /\ UNCHANGED <<pending_translations, pc>>
    /\ UNCHANGED <<exited, abandoned, use_mlx, workers,
                   audio_len, budget, running, audio_read,
                   chunk_id, transcriber_index, pending_transcriptions,
                   tjobs, xjobs, xq, previous_text, previous_translation,
                   shed, completed>>

\* -------------------------------------- transcribe_executor's threads
\* An idle thread of the pool takes the oldest queued work item and calls
\* _transcribe_chunk(current_transcriber, audio_chunk, chunk_id).
TranscribeStart ==
    /\ ~exited
    /\ TQueued # {}
    /\ Cardinality(TRunning) < NumWorkers
    /\ tjobs' = [tjobs EXCEPT ![Min(TQueued)].st = "running"]
    /\ UNCHANGED <<exited, abandoned, use_mlx, workers,
                   audio_len, budget, running, pc,
                   audio_read, chunk_id, transcriber_index,
                   pending_transcriptions, pending_translations,
                   still_pending, idx, xjobs, xq, previous_text,
                   previous_translation, events, shed, completed>>

\* The future of work item k resolves with the text transcribe returns.
Resolve(k, raw) ==
    [tjobs EXCEPT ![k].st = "done", ![k].raw = raw,
                  ![k].text = Transcribe(raw)]

\* The future of work item k holds the exception the engine raised.
Fail(k) == [tjobs EXCEPT ![k].st = "done", ![k].raised = TRUE]

\* transcriber.transcribe(audio_chunk) returns or raises.
TranscribeFinish(k) ==
    /\ ~exited
    /\ tjobs[k].st = "running"
    /\ budget > 0
    /\ budget' = budget - 1
    /\ completed' = Append(completed, k)
    /\ \/ \E raw \in RawOutputs(k) : tjobs' = Resolve(k, raw)
       \* _transcribe_mlx catches the engine's exception and returns ""
       \/ use_mlx /\ tjobs' = Resolve(k, EmptyText)
       \* _transcribe_faster_whisper lets it through
       \/ ~use_mlx /\ tjobs' = Fail(k)
    /\ UNCHANGED <<exited, abandoned, use_mlx, workers,
                   audio_len, running, pc, audio_read,
                   chunk_id, transcriber_index, pending_transcriptions,
                   pending_translations, still_pending, idx, xjobs, xq,
                   previous_text, previous_translation, events, shed>>

\* ------------------------------------------------ Translator.translate
\* Lines 51-65: the text is not blank; "if use_context and
\* self.previous_text" and the read of previous_text into the prompt.
ReadPreviousText(call) ==
    [call EXCEPT !.ctx_text = previous_text,
                 !.st = IF previous_text # EmptyText
                        THEN "read_translation" ELSE "engine"]

\* An idle thread of translate_executor takes the oldest queued call and
\* runs _translate_and_log up to translate's read of previous_text.
TranslateStart ==
    /\ ~exited
    /\ \E i \in 1..Len(xq) :
          /\ xjobs[xq[i]].st = "queued"
          /\ \A j \in 1..(i - 1) : xjobs[xq[j]].st # "queued"
          /\ Cardinality(XPoolRunning) < TranslateWorkers
          /\ xjobs' = [xjobs EXCEPT ![xq[i]] = ReadPreviousText(@)]
    /\ UNCHANGED <<exited, abandoned, use_mlx, workers,
                   audio_len, budget, running, pc,
                   audio_read, chunk_id, transcriber_index,
                   pending_transcriptions, pending_translations,
                   still_pending, idx, tjobs, xq, previous_text,
                   previous_translation, events, shed, completed>>

\* Line 66: the read of previous_translation into the prompt.
TranslateReadTranslation(c) ==
    /\ ~exited
    /\ xjobs[c].st = "read_translation"
    /\ xjobs' = [xjobs EXCEPT ![c].ctx_translation = previous_translation,
                              ![c].st = "engine"]
    /\ UNCHANGED <<exited, abandoned, use_mlx, workers,
                   audio_len, budget, running, pc,
                   audio_read, chunk_id, transcriber_index,
                   pending_transcriptions, pending_translations,
                   still_pending, idx, tjobs, xq, previous_text,
                   previous_translation, events, shed, completed>>

\* The prompt is sent and is dead afterwards.
Sent(call, st, result) ==
    [call EXCEPT !.st = st, !.result = result, !.ctx_text = EmptyText,
                 !.ctx_translation = EmptyText]

\* Mutant: "self.previous_text = text" comes before the engine call.
StoredBeforeCall(text) == text

\* Lines 101-106: both except clauses return without an assignment to the
\* context.
KeptOnFailure(text) == previous_text

\* Lines 81-106: client.chat.completions.create answers and line 97
\* stores self.previous_text = text; or it raises an OpenAIError (a
\* timeout is one) and translate returns the diagnostic; or something
\* else raises and translate returns the text.
TranslateEngine(c) ==
    /\ ~exited
    /\ xjobs[c].st = "engine"
    /\ \/ /\ xjobs' = [xjobs EXCEPT
                  ![c] = Sent(@, "write_translation", Translated(@.text))]
          /\ previous_text' = xjobs[c].text
       \/ /\ xjobs' = [xjobs EXCEPT ![c] = Sent(@, "done", ErrorText)]
          /\ previous_text' = KeptOnFailure(xjobs[c].text)
       \/ /\ xjobs' = [xjobs EXCEPT ![c] = Sent(@, "done", @.text)]
          /\ previous_text' = KeptOnFailure(xjobs[c].text)
    /\ UNCHANGED <<exited, abandoned, use_mlx, workers,
                   audio_len, budget, running, pc,
                   audio_read, chunk_id, transcriber_index,
                   pending_transcriptions, pending_translations,
                   still_pending, idx, tjobs, xq, previous_translation,
                   events, shed, completed>>

\* Lines 98-100: self.previous_translation = result; return result
TranslateWriteTranslation(c) ==
    /\ ~exited
    /\ xjobs[c].st = "write_translation"
    /\ previous_translation' = xjobs[c].result
    /\ xjobs' = [xjobs EXCEPT ![c].st = "done"]
    /\ UNCHANGED <<exited, abandoned, use_mlx, workers,
                   audio_len, budget, running, pc,
                   audio_read, chunk_id, transcriber_index,
                   pending_transcriptions, pending_translations,
                   still_pending, idx, tjobs, xq, previous_text, events,
                   shed, completed>>

\* ------------------------------------------ processing_loop, DRAINING
\* Mutant: the exception of a wait leaves the drain loops.
DrainAborted(goes_on) == "stopped"

\* Lines 185-186 and 194-195: "except: pass"; the for-loop goes on to
\* where it would go after any other entry.
DrainPassed(goes_on) == goes_on

\* Mutant: the drain calls fut.result() without a timeout.
ResultWaits(job) == job.st = "done"

\* Lines 181 and 190: fut.result(timeout=10) and fut.result(timeout=5)
\* come back within the timeout, whatever the state of the future.
ResultTimesOut(job) == TRUE

\* One turn of the first drain loop: fut.result(timeout=10) returns,
\* raises or times out; a text that is not blank goes to
\* self.translator.translate on this thread.
DrainTranscription ==
    /\ ~exited
    /\ pc = "drain_t"
    /\ ResultTimesOut(tjobs[Turn(pending_transcriptions, idx)])
    /\ LET cid == Turn(pending_transcriptions, idx)
           job == tjobs[cid]
       IN  \/ /\ job.st = "done" /\ ~job.raised /\ job.text # EmptyText
              /\ xjobs' = xjobs @@
                    (cid :> ReadPreviousText(NewCall(job.text, FALSE)))
              /\ pc' = "drain_call"
              /\ UNCHANGED <<idx, abandoned>>
           \* "if text and text.strip()" fails
           \/ /\ job.st = "done" /\ ~job.raised /\ job.text = EmptyText
              /\ pc' = DrainPc(idx + 1)
              /\ idx' = DrainIdx(idx + 1)
              /\ UNCHANGED <<xjobs, abandoned>>
           \* the call raised, or the wait timed out
           \/ /\ job.st # "done" \/ job.raised
              /\ abandoned' = abandoned \cup {cid}
              /\ pc' = DrainPassed(DrainPc(idx + 1))
              /\ idx' = DrainIdx(idx + 1)
              /\ UNCHANGED xjobs
    /\ UNCHANGED <<exited, use_mlx, workers, audio_len, budget, running,
                   audio_read, chunk_id, transcriber_index,
                   pending_transcriptions, pending_translations,
                   still_pending, tjobs, xq, previous_text,
                   previous_translation, events, shed, completed>>

\* translate has returned to the drain loop: emit(cid, text, translated).
DrainEmit ==
    /\ ~exited
    /\ pc = "drain_call"
    /\ LET cid == Turn(pending_transcriptions, idx)
       IN  /\ xjobs[cid].st = "done"
           /\ events' = EmitDrained(cid)
    /\ pc' = DrainPc(idx + 1)
    /\ idx' = DrainIdx(idx + 1)
    /\ UNCHANGED <<exited, abandoned, use_mlx, workers,
                   audio_len, budget, running, audio_read,
                   chunk_id, transcriber_index, pending_transcriptions,
                   pending_translations, still_pending, tjobs, xjobs, xq,
                   previous_text, previous_translation, shed, completed>>

\* One turn of the second drain loop: fut.result(timeout=5) returns or
\* times out; after the last one both executors are shut down.
DrainTranslation ==
    /\ ~exited
    /\ pc = "drain_x"
    /\ ResultTimesOut(xjobs[Turn(pending_translations, idx)])
    /\ LET cid == Turn(pending_translations, idx)
           last == idx = Len(pending_translations)
       IN  /\ IF xjobs[cid].st = "done"
              THEN /\ events' = EmitDrainedTranslation(cid)
                   /\ pc' = IF last THEN "stopped" ELSE "drain_x"
                   /\ UNCHANGED abandoned
              ELSE /\ abandoned' = abandoned \cup {cid}
                   /\ pc' = DrainPassed(IF last THEN "stopped"
                                                 ELSE "drain_x")
                   /\ UNCHANGED events
           /\ idx' = IF last THEN 1 ELSE idx + 1
    /\ UNCHANGED <<exited, use_mlx, workers, audio_len, budget, running,
                   audio_read, chunk_id, transcriber_index,
                   pending_transcriptions, pending_translations,
                   still_pending, tjobs, xjobs, xq, previous_text,
                   previous_translation, shed, completed>>

\* ----------------------------------------------------- specifications
Next ==
    \/ Stop
    \/ ReadChunk
    \/ EndOfStream
    \/ PollTranscription
    \/ PollTranslation
    \/ TranscribeStart
    \/ \E k \in DOMAIN tjobs : TranscribeFinish(k)
    \/ TranslateStart
    \/ \E c \in DOMAIN xjobs : TranslateReadTranslation(c)
    \/ \E c \in DOMAIN xjobs : TranslateEngine(c)
    \/ \E c \in DOMAIN xjobs : TranslateWriteTranslation(c)
    \/ DrainTranscription
    \/ DrainEmit
    \/ DrainTranslation

Spec == Init /\ [][Next]_vars

\* The steps of the processing_loop thread while it is in the for-loop.
Loop == ReadChunk \/ EndOfStream \/ PollTranscription \/ PollTranslation

\* A run in which the engine completes only some calls: the loop thread is
\* scheduled fairly, the workers of both pools may stall for ever.
InitStall ==
    /\ InitCommon
    /\ InitConfig
    /\ audio_len = MaxChunks
    /\ budget = StallDone

SpecStall == InitStall /\ [][Next]_vars /\ WF_vars(Loop)

SpecOverload == InitOverload /\ [][Next]_vars

\* The steps of the processing_loop thread after the for-loop: the two
\* drain loops, and the translate call the first one makes itself.
Drain == DrainTranscription \/ DrainEmit \/ DrainTranslation

DrainCall ==
    \E c \in DOMAIN xjobs :
        /\ ~xjobs[c].pool
        /\ \/ TranslateReadTranslation(c)
           \/ TranslateEngine(c)
           \/ TranslateWriteTranslation(c)

Thread == Loop \/ Drain \/ DrainCall

\* The loop thread is scheduled fairly from its start to the shutdown of
\* the executors; the workers of both pools may stall for ever.
SpecDrain == InitStall /\ [][Next]_vars /\ WF_vars(Thread)

\* The steps of the threads of the two executors.
Workers ==
    \/ TranscribeStart
    \/ \E k \in DOMAIN tjobs : TranscribeFinish(k)
    \/ TranslateStart
    \/ \E c \in DOMAIN xjobs :
          /\ xjobs[c].pool
          /\ \/ TranslateReadTranslation(c)
             \/ TranslateEngine(c)
             \/ TranslateWriteTranslation(c)

\* The loop thread and the pool threads are all scheduled fairly; a call
\* of the transcription engine may still never return.
SpecFair == InitStall /\ [][Next]_vars /\ WF_vars(Thread) /\ WF_vars(Workers)

\* ------------------------------------------------------- the process
\* The loop thread is inside a wait of the drain that outlasts stop()'s
\* join: fut.result(timeout=10) or fut.result(timeout=5) on a future that
\* is not done, or the drain's own translate call (timeout=10.0).
InDrainWait ==
    \/ pc = "drain_t" /\ tjobs[Turn(pending_transcriptions, idx)].st # "done"
    \/ pc = "drain_x" /\ xjobs[Turn(pending_translations, idx)].st # "done"
    \/ pc = "drain_call"

\* Lines 73-74: "if self.thread.is_alive(): self.thread.join(timeout=2)"
\* returns when the thread has ended, or after 2 seconds while the thread
\* is still waiting.
JoinReturns == pc = "stopped" \/ InDrainWait

\* stop() has returned to signal_handler or to main's finally block, and
\* the interpreter exits: processing_loop runs on a daemon thread
\* (line 66), which ends there and then.
ProcessExit ==
    /\ ~running
    /\ ~exited
    /\ JoinReturns
    /\ exited' = TRUE
    /\ UNCHANGED <<abandoned, use_mlx, workers, audio_len, budget, running,
                   pc, audio_read, chunk_id, transcriber_index,
                   pending_transcriptions, pending_translations,
                   still_pending, idx, tjobs, xjobs, xq, previous_text,
                   previous_translation, events, shed, completed>>

NextProcess ==
    \/ Next
    \/ ProcessExit

\* A run of the whole process, from start() to the interpreter's exit.
SpecProcess == InitStall /\ [][NextProcess]_vars /\ WF_vars(Thread)

\* ---------------------------------------------- the filter on its own
\* One segment is being transcribed.
InitFilter ==
    /\ use_mlx = FALSE
    /\ workers = 1
    /\ audio_len = 1
    /\ budget = 1
    /\ running = TRUE
    /\ pc = "read"
    /\ audio_read = 1
    /\ chunk_id = 1
    /\ transcriber_index = 1
    /\ pending_transcriptions = <<1>>
    /\ pending_translations = <<>>
    /\ still_pending = <<>>
    /\ idx = 1
    /\ tjobs = <<[NewJob(1, 0, 1) EXCEPT !.st = "running"]>>
    /\ xjobs = <<>>
    /\ xq = <<>>
    /\ previous_text = EmptyText
    /\ previous_translation = EmptyText
    /\ events = <<>>
    /\ shed = {}
    /\ completed = <<>>
    /\ abandoned = {}
    /\ exited = FALSE

\* The engine's text for the segment, one word longer at each step, goes
\* through transcribe. Words are numbered in the order of their first
\* occurrence: the filter compares words only for equality.
Hear ==
    /\ ~exited
    /\ Len(tjobs[1].raw) < FilterLen
    /\ \E w \in 1..FilterVocab :
          /\ w <= Cardinality(Range(tjobs[1].raw)) + 1
          /\ tjobs' = Resolve(1, Append(tjobs[1].raw, w))
    /\ UNCHANGED <<exited, abandoned, use_mlx, workers, audio_len, budget,
                   running, pc, audio_read, chunk_id, transcriber_index,
                   pending_transcriptions, pending_translations,
                   still_pending, idx, xjobs, xq, previous_text,
                   previous_translation, events, shed, completed>>

SpecFilter == InitFilter /\ [][Hear]_vars

\* A run that has fallen behind: HighWater segments have been read and
\* submitted and no transcription has completed yet, so that every pass of
\* the poll kept every entry; the pool's threads hold the oldest work
\* items and the rest is queued. The next submission overflows the
\* backlog.
InitBehind ==
    /\ use_mlx \in BOOLEAN
    /\ workers = BehindWorkers
    /\ audio_len = OverloadChunks
    /\ budget = OverloadDone
    /\ running = TRUE
    /\ pc = "read"
    /\ audio_read = HighWater
    /\ chunk_id = HighWater
    /\ transcriber_index = HighWater
    /\ pending_transcriptions = [i \in 1..HighWater |-> i]
    /\ pending_translations = <<>>
    /\ still_pending = <<>>
    /\ idx = 1
    /\ tjobs = [i \in 1..HighWater |->
                  [NewJob(i, i - 1, i) EXCEPT
                      !.st = IF i <= NumWorkers THEN "running"
                             ELSE "queued"]]
    /\ xjobs = <<>>
    /\ xq = <<>>
    /\ previous_text = EmptyText
    /\ previous_translation = EmptyText
    /\ events = <<>>
    /\ shed = {}
    /\ completed = <<>>
    /\ abandoned = {}
    /\ exited = FALSE

SpecBehind == InitBehind /\ [][Next]_vars

\* ============================================================ claims
Partial(e) == e.translated = EmptyText
Full(e) == e.translated # EmptyText

EventsOf(k) == {i \in 1..Len(events) : events[i].id = k}
PartialsOf(k) == {i \in EventsOf(k) : Partial(events[i])}
FullsOf(k) == {i \in EventsOf(k) : Full(events[i])}

\* The ids of the partial events of a list of events, in emission order.
PartialIds(evs) ==
    LET F[i \in 0..Len(evs)] ==
            IF i = 0 THEN <<>>
            ELSE IF Partial(evs[i]) THEN Append(F[i - 1], evs[i].id)
                 ELSE F[i - 1]
    IN  F[Len(evs)]

\* The transcription of k was found done with a text: the RUNNING poll
\* handed it to the pool, or the drain translated it itself.
Polled(k) == k \in DOMAIN xjobs /\ xjobs[k].pool
Drained(k) == k \in DOMAIN xjobs /\ ~xjobs[k].pool

\* C1: no transcription-engine instance ever runs two transcribe calls at
\* the same time: two work items running on the pool hold different
\* Transcriber instances.
C1_ExclusiveEngine ==
    \A a \in TRunning : \A b \in TRunning :
        a # b => tjobs[a].transcriber # tjobs[b].transcriber

StoredPairs ==
    {<<xjobs[c].text, xjobs[c].result>> :
        c \in {d \in DOMAIN xjobs :
                  /\ xjobs[d].st \in {"write_translation", "done"}
                  /\ xjobs[d].result = Translated(xjobs[d].text)}}

\* C3: the context pair is always the initial empty pair or the
\* (text, result) of one successful translate call, and so is every pair
\* a translate call has read into its prompt.
C3_ContextUntorn ==
    /\ <<previous_text, previous_translation>>
           \in StoredPairs \cup {<<EmptyText, EmptyText>>}
    /\ \A c \in DOMAIN xjobs :
          (xjobs[c].st = "engine" /\ xjobs[c].ctx_text # EmptyText)
              => <<xjobs[c].ctx_text, xjobs[c].ctx_translation>>
                     \in StoredPairs

\* C4: a submission that would take the backlog over 10 entries leaves at
\* most 6 after the shedding step, and the backlog never holds more than
\* 10 entries when it is polled or when an iteration ends.
C4_BacklogBounded ==
    /\ [](Len(pending_transcriptions) <= HighWater)
    /\ [][(pc = "read" /\ chunk_id' # chunk_id
              /\ Len(pending_transcriptions) + 1 > HighWater)
            => Len(pending_transcriptions') <= LowWater + 1]_vars

\* The backlog has overflowed and was cut back.
C4_Witness ==
    /\ shed # {}
    /\ pc = "poll_t"
    /\ idx = 1
    /\ Len(pending_transcriptions) = LowWater

\* C5: a shedding step removes exactly the entries with the lowest ids and
\* keeps the segment just submitted; a shed segment never has an event and
\* is never handed to a translate call, whatever its transcription
\* returns.
C5_LatestWins ==
    /\ [](\A k \in shed : EventsOf(k) = {} /\ k \notin DOMAIN xjobs)
    /\ [][shed' # shed =>
            LET gone == shed' \ shed
                kept == Range(pending_transcriptions')
            IN  /\ chunk_id' \in kept
                /\ \A g \in gone : \A r \in kept : g < r
                /\ gone \cup kept =
                       Range(pending_transcriptions) \cup {chunk_id'}
                /\ gone \cap kept = {}]_vars

\* A shed segment whose transcription has completed with a text.
C5_Witness ==
    \E k \in shed :
        /\ tjobs[k].st = "done"
        /\ tjobs[k].text # EmptyText
        /\ pc = "stopped"

\* C6: the ids of the submitted segments are 1, 2, 3, ... in the order the
\* segments are read from the audio source, each one the previous plus 1,
\* none twice; a segment read after stop was requested gets no id.
C6_SequentialIds ==
    /\ [](/\ Len(tjobs) = chunk_id
          /\ \A k \in 1..Len(tjobs) : tjobs[k].id = k /\ tjobs[k].audio = k
          /\ audio_read \in {chunk_id, chunk_id + 1}
          /\ audio_read = chunk_id + 1 => ~running)
    /\ [][chunk_id' \in {chunk_id, chunk_id + 1}]_vars

\* Two segments were numbered and a third, read after the stop request,
\* was not.
C6_Witness ==
    /\ chunk_id = 2
    /\ audio_read = 3
    /\ tjobs[2].id = 2

InFirstThree(k) == k \in 1..3

\* C9 (as claimed): when segments 1, 2, 3 complete in the order 3, 2, 1,
\* all with a text, their partial events are emitted in the order 3, 2, 1.
C9_CompletionOrder ==
    (/\ SelectSeq(completed, InFirstThree) = <<3, 2, 1>>
     /\ \A k \in 1..3 : PartialsOf(k) # {})
        => SelectSeq(PartialIds(events), InFirstThree) = <<3, 2, 1>>

\* C9 (amended): partial events are emitted in the order the polling loop
\* finds the futures done: a pass walks the backlog in submission order,
\* so the partial events of one pass come in ascending segment_id,
\* whatever order the transcriptions completed in, and after those of
\* every earlier pass.
C9_PollOrder ==
    [][pc = "poll_t" =>
        LET pass == Range(SubSeq(pending_transcriptions, 1, idx))
            ids == PartialIds(events')
        IN  \A i \in 1..Len(ids) : \A j \in 1..Len(ids) :
                i < j => /\ ids[i] \in pass => ids[j] \in pass
                         /\ (ids[i] \in pass /\ ids[j] \in pass)
                                => ids[i] < ids[j]]_vars

\* The transcriptions completed in the order 3, 2, 1 and one pass emitted
\* their partial events in the order 1, 2, 3.
C9_Witness ==
    /\ completed = <<3, 2, 1>>
    /\ PartialIds(events) = <<1, 2, 3>>

\* The event list evs holds exactly one event for k, the full one.
OneFull(evs, k, original, translated) ==
    /\ Cardinality({i \in 1..Len(evs) : evs[i].id = k /\ Full(evs[i])}) = 1
    /\ evs[Len(evs)] = [id |-> k, original |-> original,
                        translated |-> translated]
    /\ translated # EmptyText

RunningLoop == pc \in {"read", "poll_t", "poll_x"}

\* C8: in RUNNING the loop never waits for a worker: with workers that
\* stall for ever, every segment the source produces is still read,
\* numbered and submitted unless stop is requested, and every result that
\* has completed is still polled and emitted while the loop runs.
C8_NeverWaits ==
    /\ <>(~running \/ audio_read = audio_len)
    /\ [](running => (chunk_id = audio_read /\ Len(tjobs) = audio_read))
    /\ \A k \in 1..MaxChunks :
          (/\ RunningLoop
           /\ k \in Range(pending_transcriptions)
           /\ tjobs[k].st = "done"
           /\ ~tjobs[k].raised
           /\ tjobs[k].text # EmptyText)
              ~> (PartialsOf(k) # {} \/ k \in shed \/ ~RunningLoop)
    /\ \A k \in 1..MaxChunks :
          (/\ RunningLoop
           /\ k \in Range(pending_translations)
           /\ xjobs[k].st = "done")
              ~> (FullsOf(k) # {} \/ ~RunningLoop)

\* A worker has stalled for ever, the last segment was read and submitted
\* all the same, and the result of a completed call was emitted.
C8_Witness ==
    /\ running
    /\ budget = 0
    /\ Cardinality(TRunning) >= 1
    /\ audio_read = audio_len
    /\ chunk_id = audio_len
    /\ \E k \in DOMAIN xjobs : PartialsOf(k) # {} /\ FullsOf(k) # {}

\* The events of segment k in the event list evs.
EventsIn(evs, k) == {i \in 1..Len(evs) : evs[i].id = k}

\* C11: in DRAINING, an entry whose wait times out or whose call raised is
\* abandoned: no event is emitted for its segment at that step or at any
\* later one, the drain goes on with the entry after it, and at STOPPED
\* every entry of both lists has been either abandoned or processed.
C11_DrainAbandons ==
    /\ [][\A k \in abandoned' : EventsIn(events', k) = EventsIn(events, k)]_vars
    /\ [][abandoned' # abandoned =>
            IF pc = "drain_t"
            THEN /\ idx < Len(pending_transcriptions)
                    => pc' = "drain_t" /\ idx' = idx + 1
                 /\ (/\ idx = Len(pending_transcriptions)
                     /\ Len(pending_translations) > 0)
                    => pc' = "drain_x" /\ idx' = 1
            ELSE /\ pc = "drain_x"
                 /\ idx < Len(pending_translations)
                    => pc' = "drain_x" /\ idx' = idx + 1]_vars
    /\ [](pc = "stopped" =>
            /\ \A k \in Range(pending_transcriptions) :
                  \/ k \in abandoned /\ EventsOf(k) = {}
                  \/ Drained(k) /\ Cardinality(FullsOf(k)) = 1
                  \/ tjobs[k].st = "done" /\ tjobs[k].text = EmptyText
            /\ \A k \in Range(pending_translations) :
                  \/ k \in abandoned /\ FullsOf(k) = {}
                  \/ Cardinality(FullsOf(k)) = 1)

\* The drain gave up a transcription and a translation, and translated
\* and emitted the transcription that came after the one it gave up.
C11_Witness ==
    /\ pc = "stopped"
    /\ \E i \in 1..Len(pending_transcriptions) :
          /\ pending_transcriptions[i] \in abandoned
          /\ \E j \in (i + 1)..Len(pending_transcriptions) :
                /\ Drained(pending_transcriptions[j])
                /\ FullsOf(pending_transcriptions[j]) # {}
    /\ \E k \in Range(pending_translations) : k \in abandoned

C13_ExitAfterDrain == exited => pc = "stopped"

\* The engine call of the pool's translate call for segment k has timed
\* out: translate has returned the diagnostic.
TimedOut(k) ==
    /\ k \in DOMAIN xjobs
    /\ xjobs[k].pool
    /\ xjobs[k].st = "done"
    /\ xjobs[k].result = ErrorText

\* C14 (as claimed): a segment whose translation engine call timed out in
\* RUNNING never has an event with a non-empty translated text.
C14_TimeoutNotShown ==
    RunningLoop => \A k \in DOMAIN xjobs : TimedOut(k) => FullsOf(k) = {}

\* C14 (amended): a segment whose translation engine call timed out has no
\* event carrying a translation; the poll that finds its future done
\* emits one full event whose translated text is the diagnostic string.
C14_TimeoutShowsDiagnostic ==
    /\ [](\A k \in DOMAIN xjobs : TimedOut(k) =>
            \A i \in FullsOf(k) :
                events[i] = [id |-> k, original |-> tjobs[k].text,
                             translated |-> ErrorText])
    /\ [][(/\ pc = "poll_x"
           /\ (pc' # pc \/ idx' # idx)
           /\ TimedOut(pending_translations[idx]))
            => LET k == pending_translations[idx]
               IN  /\ FullsOf(k) = {}
                   /\ events' = Append(events,
                          [id |-> k, original |-> tjobs[k].text,
                           translated |-> ErrorText])]_vars

\* The loop is in RUNNING and has emitted the diagnostic of a call that
\* timed out.
C14_Witness ==
    /\ RunningLoop
    /\ \E k \in DOMAIN xjobs : TimedOut(k) /\ FullsOf(k) # {}

\* The text holds n identical words in a row.
HasRun(words, n) ==
    \E i \in 1..(Len(words) - n + 1) :
        \A j \in i..(i + n - 1) : words[j] = words[i]

\* The text is rejected: a run of more than 4 identical words, or more
\* than 10 words of which fewer than 40% are distinct.
Rejected(words) ==
    \/ HasRun(words, 5)
    \/ /\ Len(words) > 10
       /\ 10 * Cardinality(Range(words)) < 4 * Len(words)

\* C15: the hallucination filter rejects a text exactly when its longest
\* run of identical words is longer than 4, or it has more than 10 words
\* and 10 * (distinct words) < 4 * (words); transcribe returns the empty
\* text for a rejected text and the text itself otherwise.
C15_FilterExact ==
    LET words == tjobs[1].raw
    IN  /\ IsHallucination(words) <=> Rejected(words)
        /\ IsHallucination(EmptyText) = FALSE
        /\ tjobs[1].st = "done" =>
              tjobs[1].text = IF Rejected(words) THEN EmptyText ELSE words

\* A text of 11 words, 4 of them distinct, without a run of 5, was
\* rejected for its ratio.
C15_Witness ==
    LET words == tjobs[1].raw
    IN  /\ Len(words) = 11
        /\ Cardinality(Range(words)) = 4
        /\ ~HasRun(words, 5)
        /\ tjobs[1].text = EmptyText

\* What a translate call on text can return.
Returns(text) == {Translated(text), ErrorText, text}

\* C16: a translate call always returns: the translation, the diagnostic
\* string on an engine-side failure, or the original text on any other
\* fault; a call that fails writes neither previous_text nor
\* previous_translation, and each of the two is written only by a call
\* whose engine call has succeeded, with that call's text and result.
C16_TranslateNeverRaises ==
    /\ [](\A c \in DOMAIN xjobs :
            /\ xjobs[c].st \in {"queued", "read_translation", "engine",
                                "write_translation", "done"}
            /\ xjobs[c].st = "done" => xjobs[c].result \in Returns(xjobs[c].text)
            /\ xjobs[c].st = "write_translation"
                  => xjobs[c].result = Translated(xjobs[c].text))
    /\ [][\A c \in DOMAIN xjobs :
            (/\ xjobs[c].st = "engine"
             /\ xjobs'[c].st = "done")
                => /\ xjobs'[c].result \in {ErrorText, xjobs[c].text}
                   /\ previous_text' = previous_text
                   /\ previous_translation' = previous_translation]_vars
    /\ [][/\ previous_text' # previous_text =>
                \E c \in DOMAIN xjobs :
                    /\ xjobs[c].st = "engine"
                    /\ xjobs'[c].st = "write_translation"
                    /\ previous_text' = xjobs[c].text
          /\ previous_translation' # previous_translation =>
                \E c \in DOMAIN xjobs :
                    /\ xjobs[c].st = "write_translation"
                    /\ xjobs'[c].st = "done"
                    /\ previous_translation' = Translated(xjobs[c].text)]_vars

\* One call has stored its pair, then one has returned the diagnostic and
\* one the original text, and the context is still the pair of the first.
C16_Witness ==
    \E a \in DOMAIN xjobs : \E b \in DOMAIN xjobs : \E c \in DOMAIN xjobs :
        /\ xjobs[a].st = "done" /\ xjobs[a].result = Translated(xjobs[a].text)
        /\ xjobs[b].st = "done" /\ xjobs[b].result = ErrorText
        /\ xjobs[c].st = "done" /\ xjobs[c].result = xjobs[c].text
        /\ previous_text = xjobs[a].text
        /\ previous_translation = xjobs[a].result

\* The transcription call of segment k has raised.
Raised(k) == tjobs[k].st = "done" /\ tjobs[k].raised

\* C17: a transcription call that raised never brings an event or a
\* translate call for its segment; the RUNNING poll that finds it removes
\* its entry, emits and submits nothing, stays in RUNNING and goes on with
\* the next entry of the pass.
C17_RaiseIsEmpty ==
    /\ [](\A k \in DOMAIN tjobs :
            Raised(k) => EventsOf(k) = {} /\ k \notin DOMAIN xjobs)
    /\ [][(/\ pc = "poll_t"
           /\ (pc' # pc \/ idx' # idx)
           /\ Raised(pending_transcriptions[idx]))
            => LET cid == pending_transcriptions[idx]
               IN  /\ events' = events
                   /\ xjobs' = xjobs
                   /\ xq' = xq
                   /\ pending_translations' = pending_translations
                   /\ cid \notin Range(still_pending')
                   /\ RunningLoop'
                   /\ IF idx < Len(pending_transcriptions)
                      THEN pc' = "poll_t" /\ idx' = idx + 1
                      ELSE cid \notin Range(pending_transcriptions')]_vars

\* The poll has removed the entry of a call that raised, and a later
\* segment got its partial event while the loop is still in RUNNING.
C17_Witness ==
    /\ RunningLoop
    /\ \E k \in DOMAIN tjobs :
          /\ Raised(k)
          /\ k \notin Range(pending_transcriptions)
          /\ k \notin Range(still_pending)
          /\ \E j \in DOMAIN tjobs : j > k /\ PartialsOf(j) # {}

\* The segments handed to engine instance t so far.
AssignedTo(t) == {k \in DOMAIN tjobs : tjobs[k].transcriber = t}

\* C18: segment k is handed to engine instance (k - 1) mod N, where N is
\* 1 with the MLX backend and the configured number of workers otherwise;
\* so the numbers of segments handed to any two instances never differ by
\* more than 1.
C18_RoundRobin ==
    LET N == IF use_mlx THEN 1 ELSE workers
    IN  /\ \A k \in DOMAIN tjobs : tjobs[k].transcriber = (k - 1) % N
        /\ \A a \in 0..(N - 1) : \A b \in 0..(N - 1) :
              Cardinality(AssignedTo(a)) - Cardinality(AssignedTo(b)) <= 1

\* Two instances, three segments: the first call is still running when
\* the second has returned and the third has been handed to instance 0.
C18_Witness ==
    /\ ~use_mlx
    /\ workers = 2
    /\ Len(tjobs) = 3
    /\ tjobs[1].st = "running"
    /\ tjobs[2].st = "done"
    /\ AssignedTo(0) = {1, 3}
    /\ AssignedTo(1) = {2}

\* C19: once stop is requested the loop leaves RUNNING: at the latest when
\* it reads its next segment or the source ends. A segment read after the
\* request gets no id, no work item, no backlog entry and no event, and
\* after RUNNING is left nothing is submitted to either pool.
C19_StopLeavesRunning ==
    /\ ~running ~> ~RunningLoop
    /\ [][/\ (~running /\ audio_read' # audio_read)
                => /\ chunk_id' = chunk_id
                   /\ tjobs' = tjobs
                   /\ pending_transcriptions' = pending_transcriptions
                   /\ events' = events
                   /\ ~RunningLoop'
          /\ (~running /\ pc = "read" /\ pc' # pc) => ~RunningLoop'
          /\ ~RunningLoop
                => /\ xq' = xq
                   /\ Len(tjobs') = Len(tjobs)
                   /\ audio_read' = audio_read
                   /\ \A c \in DOMAIN xjobs' :
                         xjobs'[c].pool => c \in DOMAIN xjobs]_vars

\* Stop was requested with two segments still to come: the next one was
\* read and dropped, the last one never read, and the loop is draining
\* what the numbered segment left behind.
C19_Witness ==
    /\ ~running
    /\ pc \in {"drain_t", "drain_x"}
    /\ chunk_id = 1
    /\ audio_read = 2
    /\ audio_read < audio_len

\* The transcription of segment k has completed with a text.
Heard(k) ==
    /\ k \in DOMAIN tjobs
    /\ tjobs[k].st = "done"
    /\ ~tjobs[k].raised
    /\ tjobs[k].text # EmptyText

\* The translate call of segment k has completed.
TranslationDone(k) == k \in DOMAIN xjobs /\ xjobs[k].st = "done"

\* Every thread has come to rest: the loop thread has ended and no pool
\* thread has a step left.
Quiet == pc = "stopped" /\ ~ENABLED Workers

TranscriptionBacklog ==
    CASE pc = "poll_t" ->
             still_pending \o SubSeq(pending_transcriptions, idx,
                                     Len(pending_transcriptions))
      [] pc = "drain_t" ->
             SubSeq(pending_transcriptions, idx, Len(pending_transcriptions))
      [] pc = "drain_call" ->
             SubSeq(pending_transcriptions, idx + 1,
                    Len(pending_transcriptions))
      [] pc \in {"drain_x", "stopped"} -> <<>>
      [] OTHER -> pending_transcriptions

\* The entries of pending_translations the orchestrator has still to
\* consult.
TranslationBacklog ==
    CASE pc = "poll_x" ->
             still_pending \o SubSeq(pending_translations, idx,
                                     Len(pending_translations))
      [] pc = "drain_x" ->
             SubSeq(pending_translations, idx, Len(pending_translations))
      [] pc = "stopped" -> <<>>
      [] OTHER -> pending_translations

NoRepeats(list) ==
    \A i \in 1..Len(list) : \A j \in 1..Len(list) :
        list[i] = list[j] => i = j

C22_ShedBoundsPool ==
    RunningLoop =>
        /\ Cardinality(TQueued \cup TRunning)
               <= Len(TranscriptionBacklog) + NumWorkers
        /\ \A k \in Range(TranscriptionBacklog) : \A s \in shed :
              (tjobs[k].st = "queued" /\ s < k) => tjobs[s].st # "queued"

====
